---- MODULE Spec2Model ----
(***************************************************************************)
(* Model of the directory bootstrap driver of tor-dirmgr                   *)
(* (crates/tor-dirmgr/src/bootstrap.rs): load_once, load, download_attempt *)
(* and download, run against the DemoState state machine of the module's   *)
(* own tests.                                                              *)
(*                                                                         *)
(* Time is counted in half weeks (3.5 days): the only duration the driver  *)
(* itself fixes is the one-week clamp of no_more_than_a_week_from, and a   *)
(* deadline can then lie before, at or after the end of that week.         *)
(***************************************************************************)
EXTENDS Integers, FiniteSets, Sequences, TLC

(* ------------------------------ bounds --------------------------------- *)

\* Latest wall-clock time the model lets the clock reach.
MaxTime == 4
\* Largest delay the retry schedule hands out.
MaxDelay == 1
\* Largest n_attempts a DownloadSchedule of the model has.
MaxAttempts == 2
\* Number of timer-driven resets explored in one download call.
MaxResets == 1

\* fetch_multiple: the most requests one call builds, and the largest
\* `parallelism` it is given.
MaxRequests == 3
MaxParallelism == 2

\* download_attempt: the most responses its fetch_multiple returns.
MaxFetched == 2

\* The mock clock: the number of operations made on one provider and its
\* futures, and the longest duration handed to it.
MaxOps == 5
MaxDur == 2

(* ------------------------- program constants --------------------------- *)

\* Duration::new(86400 * 7, 0), in half weeks.
OneWeek == 2
\* assert!(safety_counter < 100, ...)
SafetyLimit == 100

\* The microdescriptor digests H1..H5 of the tests.
Docs == 1..5

(* ----------------------------- Option<T> ------------------------------- *)

None == [some |-> FALSE, v |-> 0]
Some(x) == [some |-> TRUE, v |-> x]

Min(a, b) == IF a <= b THEN a ELSE b

(* --------------------- DemoState (impl DirState) ----------------------- *)

\* DemoState::new1 / new2: phase 1 wants H1,H2; phase 2 wants H3,H4,H5.
Wanted(phase) == IF phase = 1 THEN {1, 2} ELSE {3, 4, 5}

new1 == [phase |-> 1, got |-> {}]
new2 == [phase |-> 2, got |-> {}]

n_ready(s) == Cardinality(s.got)

is_ready(s, ready) ==
    IF s.phase = 1 THEN FALSE
    ELSE IF ready = "Complete" THEN n_ready(s) = Cardinality(Wanted(s.phase))
    ELSE n_ready(s) >= Cardinality(Wanted(s.phase)) - 1

can_advance(s) ==
    IF s.phase = 2 THEN FALSE
    ELSE n_ready(s) = Cardinality(Wanted(s.phase))

missing_docs(s) == Wanted(s.phase) \ s.got

\* Marks every wanted id that is among docs; the result is (state, changed).
AddDocs(s, docs) ==
    LET new == (docs \cap Wanted(s.phase)) \ s.got
    IN  [st |-> [s EXCEPT !.got = s.got \cup new], changed |-> new # {}]

\* DemoState::add_from_cache.
add_from_cache(s, docs) == AddDocs(s, docs)

\* add_from_cache of a broken state machine: it reports a change on every
\* call, whatever it was given.  No DirState of the tests does that; it is
\* the case load's safety counter is there for.
add_from_cache_broken(s, docs) ==
    [st |-> AddDocs(s, docs).st, changed |-> TRUE]

\* (a parser that stops after the first token)
add_from_download_first(s, text) ==
    AddDocs(s, {x \in text : \A y \in text : x <= y})

\* DemoState::add_from_download: every token of the text that decodes to a digest.
add_from_download(s, text) == AddDocs(s, text)

advance(s) == IF can_advance(s) THEN new2 ELSE s

reset(s) == new1

(* ------------------------- helpers of the driver ----------------------- *)

\* (a lookup that finds nothing)
load_documents_from_store_miss(missing, st) == {}

load_documents_from_store(missing, st) == missing \cap st

\* (max where min is meant)
no_more_than_a_week_from_max(t, v) ==
    LET one_week_later == t + OneWeek
    IN  IF v.some
        THEN (IF v.v >= one_week_later THEN v.v ELSE one_week_later)
        ELSE one_week_later

no_more_than_a_week_from(t, v) ==
    LET one_week_later == t + OneWeek
    IN  IF v.some THEN Min(v.v, one_week_later) ELSE one_week_later

\* load_once with a store that can be read: the state and `changed`.  The
\* state is a Box<dyn DirState>: bk tells which add_from_cache it has.
load_once(s, st, bk) ==
    LET missing == missing_docs(s)
    IN  IF missing = {}
        THEN [st |-> s, changed |-> FALSE]
        ELSE LET documents == load_documents_from_store(missing, st)
             IN  IF bk THEN add_from_cache_broken(s, documents)
                 ELSE add_from_cache(s, documents)

(* ------------------------------- state --------------------------------- *)

VARIABLES
    fn,                 \* the entry point that was called: "load" or "download"
    pc,                 \* position of the call in its code
    state,              \* the Box<dyn DirState> the driver owns
    broken,             \* input: the state machine reports changes it did not make
    state_reset_time,   \* input: what state.reset_time() answers (an Option)
    n_attempts,         \* input: retry_config.n_attempts()
    store,              \* input: the ids the cache holds
    net,                \* input: "canned" (CANNED_RESPONSE is set) or "real"
    canned,             \* input: the ids the canned response names
    mgrAlive,           \* some strong reference to the DirMgr still exists
    clock,              \* runtime.wallclock()
    now,                \* download's local `now`
    reset_time,         \* download's reset_time of line 361
    attempt_reset_time, \* download's reset_time of line 388 (0: out of scope)
    attempt,            \* the index the 'next_attempt loop is at
    delay,              \* download's `delay` (an Option)
    retry,              \* download's `retry`: the delays it has handed out
    sleeps,             \* the delays download went to sleep for, this phase
    wake,               \* when the runtime.sleep(delay) of line 383 is over (0: no sleep)
    on_usable,          \* on_usable.is_some()
    safety_counter,     \* load's safety_counter
    changed,            \* result of the latest load_once / download_attempt
    ret,                \* what the call returned ("none" while it runs)
    n_sent,             \* history: sends on the on_usable sender
    n_fetch,            \* history: fetch_single calls
    n_loads,            \* history: load_once calls
    n_delays,           \* history: retry delays slept to their end
    n_resets,           \* history: state.reset() calls
    n_tries,            \* history: download attempts started in this phase
    n_tries_total,      \* history: download attempts started in this call
    n_status,           \* history: dirmgr.update_status calls
    ops,                \* history: DirState / fetch operations invoked
    faults              \* history: failures the environment injected

inputs == <<fn, broken, state_reset_time, n_attempts, store, net, canned>>
locals == <<now, reset_time, attempt_reset_time, attempt, delay, retry, sleeps,
            wake>>
hist   == <<n_sent, n_fetch, n_loads, n_delays, n_resets, n_tries, n_tries_total,
            n_status, ops, faults>>
driver == <<inputs, locals, hist, pc, state, mgrAlive, clock, on_usable,
            safety_counter, changed, ret>>

\* State of the other pieces of code the module follows; the calls of load
\* and download leave it alone.
VARIABLES
    prev,               \* what an earlier call of load returned (an Option)
    week_now,           \* no_more_than_a_week_from: its argument `now`
    week_v,             \* no_more_than_a_week_from: its argument `v`
    week_out            \* no_more_than_a_week_from: its result (an Option)

\* One call of fetch_multiple.
VARIABLES
    fm_pc,              \* position of the call in its code
    fm_lock,            \* the store lock is held
    fm_requests,        \* number of requests built from `missing`
    fm_parallelism,     \* the argument `parallelism`
    fm_next,            \* the next request the stream will hand out
    fm_inflight,        \* fetch_single calls started and not finished
    fm_responses,       \* `responses`, in the order the fetches finished
    fm_useful,          \* `useful_responses`
    fm_ret              \* what the call returned ("none" while it runs)

\* A MockSleepProvider: the fields of its SleepSchedule, and its users.
VARIABLES
    provider,           \* the Arc<Mutex<SleepSchedule>> is still alive
    instant,            \* SleepSchedule::instant
    wallclock,          \* SleepSchedule::wallclock
    sleepers,           \* SleepSchedule::sleepers, as the entries it holds
    futures,            \* the Sleeping futures made so far
    woken,              \* the wakers the latest operation woke, in order
    mock_op,            \* the latest operation on the clock and its argument
    mock_ops            \* number of operations made so far

\* One call of load_once.
VARIABLES
    lo_pc,              \* position of the call in its code
    lo_lock,            \* the store lock is held
    lo_state,           \* the state the call works on
    lo_store,           \* the ids the cache holds
    lo_documents,       \* `documents`
    lo_outcome,         \* `outcome` ("none" before it is there)
    lo_calls,           \* what the call has called, in order
    lo_ret              \* what the call returned ("none" while it runs)

\* One call of download_attempt, from the return of its fetch_multiple on.
VARIABLES
    da_pc,              \* position of the call in its code
    da_state,           \* the state the call works on
    da_state0,          \* the state the call was given
    da_all,             \* `fetched`, as fetch_multiple returned it
    da_fetched,         \* what the for loop over `fetched` has not seen yet
    da_changed,         \* `changed`
    da_calls,           \* what the call has called, in order
    da_ret              \* what the call returned ("none" while it runs)

week   == <<week_now, week_v, week_out>>
once   == <<lo_pc, lo_lock, lo_state, lo_store, lo_documents, lo_outcome,
            lo_calls, lo_ret>>
att    == <<da_pc, da_state, da_state0, da_all, da_fetched, da_changed,
            da_calls, da_ret>>
fetch  == <<fm_pc, fm_lock, fm_requests, fm_parallelism, fm_next, fm_inflight,
            fm_responses, fm_useful, fm_ret>>
mock   == <<provider, instant, wallclock, sleepers, futures, woken, mock_op,
            mock_ops>>
others == <<prev, week, fetch, mock, once, att>>
vars   == <<driver, others>>

\* No call of fetch_multiple is followed.
FetchIdle ==
    /\ fm_pc = "idle"
    /\ fm_lock = FALSE
    /\ fm_requests = 0
    /\ fm_parallelism = 1
    /\ fm_next = 1
    /\ fm_inflight = {}
    /\ fm_responses = <<>>
    /\ fm_useful = <<>>
    /\ fm_ret = "none"

\* No call of load_once is followed.
OnceIdle ==
    /\ lo_pc = "idle"
    /\ lo_lock = FALSE
    /\ lo_state = new1
    /\ lo_store = {}
    /\ lo_documents = {}
    /\ lo_outcome = "none"
    /\ lo_calls = <<>>
    /\ lo_ret = "none"

\* No call of download_attempt is followed.
AttIdle ==
    /\ da_pc = "idle"
    /\ da_state = new1
    /\ da_state0 = new1
    /\ da_all = <<>>
    /\ da_fetched = <<>>
    /\ da_changed = FALSE
    /\ da_calls = <<>>
    /\ da_ret = "none"

\* No mock clock is followed.
MockIdle ==
    /\ provider = FALSE
    /\ instant = 0
    /\ wallclock = 0
    /\ sleepers = <<>>
    /\ futures = <<>>
    /\ woken = <<>>
    /\ mock_op = [op |-> "none", arg |-> 0]
    /\ mock_ops = 0

\* No call of no_more_than_a_week_from is followed.
WeekIdle ==
    /\ week_now = 0
    /\ week_v = None
    /\ week_out = None

\* The caches the model starts from.
StoreChoices == {{}, {1, 2, 3}, {1, 2, 3, 4}, {1, 2, 3, 4, 5}}
\* The canned responses the model starts from (H4 H5 is the one of the test).
CannedChoices == {{4, 5}, {5}}
\* The answers of state.reset_time() the model starts from.
ResetTimeChoices == {None, Some(0), Some(1), Some(3)}

Init ==
    /\ fn \in {"load", "download"}
    /\ pc = IF fn = "load" THEN "l_loop" ELSE "d_start"
    /\ state = new1
    /\ broken \in (IF fn = "load" THEN BOOLEAN ELSE {FALSE})
    /\ store \in StoreChoices
    /\ state_reset_time \in (IF fn = "load" THEN {None} ELSE ResetTimeChoices)
    /\ n_attempts \in (IF fn = "load" THEN {1} ELSE 1..MaxAttempts)
    /\ net \in (IF fn = "load" THEN {"real"} ELSE {"canned", "real"})
    /\ canned \in (IF net = "canned" THEN CannedChoices ELSE {{}})
    /\ on_usable \in (IF fn = "load" THEN {FALSE} ELSE BOOLEAN)
    /\ mgrAlive = TRUE
    /\ clock = 0
    /\ now = 0
    /\ reset_time = 0
    /\ attempt_reset_time = 0
    /\ attempt = 0
    /\ delay = None
    /\ retry = <<>>
    /\ sleeps = <<>>
    /\ wake = 0
    /\ safety_counter = 0
    /\ changed = FALSE
    /\ ret = "none"
    /\ n_sent = 0
    /\ n_fetch = 0
    /\ n_loads = 0
    /\ n_delays = 0
    /\ n_resets = 0
    /\ n_tries = 0
    /\ n_tries_total = 0
    /\ n_status = 0
    /\ ops = {}
    /\ faults = {}
    /\ prev = None
    /\ WeekIdle
    /\ FetchIdle
    /\ MockIdle
    /\ OnceIdle
    /\ AttIdle

(* ---------------------- effects shared by the calls -------------------- *)

\* The DirState operations one load_once invokes.
LoadOnceOps(s, r) ==
    {"missing_docs"}
        \cup (IF missing_docs(s) # {} THEN {"add_from_cache"} ELSE {})
        \cup (IF r.changed THEN {"bootstrap_status"} ELSE {})

\* dirmgr.update_status(state.bootstrap_status()) when something changed.
Published_always(chg) == n_status + 1

Published(chg) == IF chg THEN n_status + 1 ELSE n_status

\* A call returns r: nothing of it runs any more.
Return(r) ==
    /\ pc' = "done"
    /\ ret' = r

(* -------------------------------- load --------------------------------- *)

\* (the limit is tested one iteration late)
SafetyOk_late(c) == c <= SafetyLimit

\* Lines 238, 353 and 428, `if state.can_advance()`: the test the driver
\* makes before it calls state.advance().
MayAdvance_early(s) == can_advance(s) \/ s.got # {}

MayAdvance(s) == can_advance(s)

\* Lines 246-249: the assertion on the safety counter.
SafetyOk(c) == c < SafetyLimit

\* load_once fails reading the store (the `?` of line 205), load gives up.
LoadStoreError ==
    /\ pc = "l_loop"
    /\ missing_docs(state) # {}
    /\ Return("ErrStore")
    /\ ops' = ops \cup {"describe", "missing_docs"}
    /\ faults' = faults \cup {"store"}
    /\ n_loads' = n_loads + 1
    /\ UNCHANGED <<others, inputs, locals, state, mgrAlive, clock, on_usable,
                   safety_counter, changed, n_sent, n_fetch, n_delays,
                   n_resets, n_tries, n_tries_total, n_status>>

\* (load returns as soon as it has advanced once)
LoadAdvance_returns ==
    /\ pc = "l_loop"
    /\ LET r == load_once(state, store, broken)
       IN  /\ can_advance(r.st)
           /\ state' = advance(r.st)
           /\ changed' = r.changed
           /\ n_status' = Published(r.changed)
           /\ ops' = ops \cup {"describe", "can_advance", "advance"}
                         \cup LoadOnceOps(state, r)
    /\ safety_counter' = 0
    /\ n_loads' = n_loads + 1
    /\ Return("Ok")
    /\ UNCHANGED <<others, inputs, locals, mgrAlive, clock, on_usable,
                   n_sent, n_fetch, n_delays, n_resets, n_tries,
                   n_tries_total, faults>>

\* One iteration of load's loop that ends in state.advance().
LoadAdvance ==
    /\ pc = "l_loop"
    /\ LET r == load_once(state, store, broken)
       IN  /\ MayAdvance(r.st)
           /\ state' = advance(r.st)
           /\ changed' = r.changed
           /\ n_status' = Published(r.changed)
           /\ ops' = ops \cup {"describe", "can_advance", "advance"}
                         \cup LoadOnceOps(state, r)
    /\ safety_counter' = 0
    /\ n_loads' = n_loads + 1
    /\ UNCHANGED <<others, inputs, locals, pc, mgrAlive, clock, on_usable, ret,
                   n_sent, n_fetch, n_delays, n_resets, n_tries,
                   n_tries_total, faults>>

\* (load falls back on the network when the cache has nothing new)
LoadBreak_fetches ==
    /\ pc = "l_loop"
    /\ LET r == load_once(state, store, broken)
       IN  /\ ~can_advance(r.st)
           /\ ~r.changed
           /\ state' = r.st
           /\ changed' = r.changed
           /\ n_status' = Published(r.changed)
           /\ ops' = ops \cup {"describe", "can_advance", "fetch_single"}
                         \cup LoadOnceOps(state, r)
    /\ n_fetch' = n_fetch + 1
    /\ Return("Ok")
    /\ n_loads' = n_loads + 1
    /\ UNCHANGED <<others, inputs, locals, mgrAlive, clock, on_usable,
                   safety_counter, n_sent, n_delays, n_resets,
                   n_tries, n_tries_total, faults>>

\* One iteration that finds nothing changed and nothing to advance to: break.
LoadBreak ==
    /\ pc = "l_loop"
    /\ LET r == load_once(state, store, broken)
       IN  /\ ~can_advance(r.st)
           /\ ~r.changed
           /\ state' = r.st
           /\ changed' = r.changed
           /\ n_status' = Published(r.changed)
           /\ ops' = ops \cup {"describe", "can_advance"}
                         \cup LoadOnceOps(state, r)
    /\ Return("Ok")
    /\ n_loads' = n_loads + 1
    /\ UNCHANGED <<others, inputs, locals, mgrAlive, clock, on_usable,
                   safety_counter, n_sent, n_fetch, n_delays, n_resets,
                   n_tries, n_tries_total, faults>>

\* One iteration that changed the state without letting it advance: count it,
\* and panic on the assertion when the count reaches the limit.
LoadSpin ==
    /\ pc = "l_loop"
    /\ LET r == load_once(state, store, broken)
       IN  /\ ~can_advance(r.st)
           /\ r.changed
           /\ state' = r.st
           /\ changed' = r.changed
           /\ n_status' = Published(r.changed)
           /\ ops' = ops \cup {"describe", "can_advance"}
                         \cup LoadOnceOps(state, r)
    /\ safety_counter' = safety_counter + 1
    /\ IF SafetyOk(safety_counter')
       THEN UNCHANGED <<pc, ret>>
       ELSE Return("Panic")
    /\ n_loads' = n_loads + 1
    /\ UNCHANGED <<others, inputs, locals, mgrAlive, clock, on_usable, n_sent,
                   n_fetch, n_delays, n_resets, n_tries, n_tries_total,
                   faults>>

Load == LoadStoreError \/ LoadAdvance \/ LoadBreak \/ LoadSpin

(* --------------------- no_more_than_a_week_from ------------------------ *)

\* Neither load nor download is running.
DriverIdle ==
    /\ fn = "none"
    /\ pc = "done"
    /\ state = new1
    /\ broken = FALSE
    /\ store = {}
    /\ state_reset_time = None
    /\ n_attempts = 1
    /\ net = "real"
    /\ canned = {}
    /\ on_usable = FALSE
    /\ mgrAlive = TRUE
    /\ clock = 0
    /\ now = 0
    /\ reset_time = 0
    /\ attempt_reset_time = 0
    /\ attempt = 0
    /\ delay = None
    /\ retry = <<>>
    /\ sleeps = <<>>
    /\ wake = 0
    /\ safety_counter = 0
    /\ changed = FALSE
    /\ ret = "none"
    /\ n_sent = 0
    /\ n_fetch = 0
    /\ n_loads = 0
    /\ n_delays = 0
    /\ n_resets = 0
    /\ n_tries = 0
    /\ n_tries_total = 0
    /\ n_status = 0
    /\ ops = {}
    /\ faults = {}
    /\ prev = None

\* The arguments `v` the function is tried on: absent, in the past of every
\* `now`, within the week, at its end and beyond it.
WeekArgs == {None} \cup {Some(t) : t \in (0 - OneWeek)..(MaxTime + 2 * OneWeek)}

InitWeek ==
    /\ DriverIdle
    /\ week_now \in 0..MaxTime
    /\ week_v \in WeekArgs
    /\ week_out = None
    /\ FetchIdle
    /\ MockIdle
    /\ OnceIdle
    /\ AttIdle

\* One call of no_more_than_a_week_from(now, v).
WeekCall ==
    /\ ~week_out.some
    /\ week_out' = Some(no_more_than_a_week_from(week_now, week_v))
    /\ UNCHANGED <<driver, prev, week_now, week_v, fetch, mock,
                   once, att>>

NextWeek == WeekCall

SpecWeek == InitWeek /\ [][NextWeek]_vars

(* ------------------------- load, called again -------------------------- *)

\* The caller hands the state that load returned to load once more, the
\* store being what it was; the history starts afresh with the new call.
LoadAgain ==
    /\ fn = "load"
    /\ pc = "done"
    /\ ret = "Ok"
    /\ ~prev.some
    /\ prev' = Some(state)
    /\ pc' = "l_loop"
    /\ ret' = "none"
    /\ safety_counter' = 0
    /\ changed' = FALSE
    /\ n_loads' = 0
    /\ n_status' = 0
    /\ ops' = {}
    /\ UNCHANGED <<week, fetch, mock, once, att, inputs, locals, state,
                   mgrAlive, clock, on_usable, n_sent, n_fetch, n_delays,
                   n_resets, n_tries, n_tries_total, faults>>

InitReplay == Init /\ fn = "load"

NextReplay == Load \/ LoadAgain

SpecReplay == InitReplay /\ [][NextReplay]_vars

(* --------------------------- download_attempt -------------------------- *)

\* make_requests_for_documents: the missing microdescriptors go into one
\* ClientRequest::Microdescs; nothing missing, no request.
make_requests_for_documents(missing) ==
    IF missing = {} THEN <<>> ELSE <<missing>>

\* The digests a response of the model can name.
Bodies == {{}, {1}, {1, 2}, {3}, {4, 5}, {3, 4, 5}}

\* What one fetch_single can come back with: an error, a response the cache
\* declined (status 404 here), or a 200 response naming some digests.
Responses ==
    {[result |-> "Err", status |-> 0, body |-> {}],
     [result |-> "Ok", status |-> 404, body |-> {}]}
        \cup {[result |-> "Ok", status |-> 200, body |-> b] : b \in Bodies}

\* fetch_single under CANNED_RESPONSE: DirResponse::from_body(s).
CannedResponse(body) == [result |-> "Ok", status |-> 200, body |-> body]

\* fetch_multiple, lines 166-184: the responses worth looking at.
fetch_multiple_any(rs) ==
    SelectSeq(rs, LAMBDA r : r.result = "Ok")

fetch_multiple(rs) ==
    SelectSeq(rs, LAMBDA r : r.result = "Ok" /\ r.status = 200)

\* download_attempt, lines 271-309: feed every fetched text to the state.
RECURSIVE AddFetched(_, _)
AddFetched(s, fetched) ==
    IF fetched = <<>>
    THEN [st |-> s, changed |-> FALSE]
    ELSE LET one  == add_from_download(s, Head(fetched).body)
             rest == AddFetched(one.st, Tail(fetched))
         IN  [st |-> rest.st, changed |-> one.changed \/ rest.changed]

download_attempt(s, rs) == AddFetched(s, fetch_multiple(rs))

(* ------------------------------ download ------------------------------- *)

\* Lines 422-426: whether the sender is sent on, and what is left of it.
SendsUsable(ou, s) == ou /\ is_ready(s, "Usable")

\* (the sender is used through a reference and stays in place)
TakeSender_keeps(ou, s) == ou

TakeSender(ou, s) == IF SendsUsable(ou, s) THEN FALSE ELSE ou

\* (the check of the weak reference is lost)
upgrade_weak_ref_always(alive) == TRUE

\* upgrade_weak_ref(&dirmgr) is Ok.
upgrade_weak_ref(alive) == alive

\* (an attempt too many)
AttemptsLeft_offByOne(a, n) == a <= n

\* Line 370: the 'next_attempt loop has another attempt to make.
AttemptsLeft(a, n) == a < n

\* A sleep_until_wallclock(deadline) future is ready at wall-clock time t.
TimerFired(t, deadline) == t >= deadline

\* (usable taken for complete)
Finished_usable(s) == is_ready(s, "Usable")

\* Lines 357 and 417: there is nothing more to download.
Finished(s) == is_ready(s, "Complete")

\* `continue 'next_state` ends the scope of the locals of the phase.
LeavePhase ==
    /\ now' = 0
    /\ reset_time' = 0
    /\ attempt_reset_time' = 0
    /\ attempt' = 0
    /\ delay' = None
    /\ retry' = <<>>
    /\ sleeps' = <<>>
    /\ wake' = 0

\* Line 337: the first upgrade of the weak reference.
DStart ==
    /\ pc = "d_start"
    /\ IF upgrade_weak_ref(mgrAlive)
       THEN pc' = "d_phase" /\ ret' = ret
       ELSE Return("ManagerDropped")
    /\ UNCHANGED <<others, inputs, locals, hist, state, mgrAlive, clock, on_usable,
                   safety_counter, changed>>

\* Lines 339-341: top of 'next_state, state.dl_config().
DPhase ==
    /\ pc = "d_phase"
    /\ pc' = "d_load"
    /\ n_tries' = 0
    /\ ops' = ops \cup {"dl_config"}
    /\ UNCHANGED <<others, inputs, locals, state, mgrAlive, clock, on_usable,
                   safety_counter, changed, ret, n_sent, n_fetch, n_loads, n_delays,
                   n_resets, n_tries_total, n_status, faults>>

\* Line 347: the manager is gone when the phase wants it.
DLoadDropped ==
    /\ pc = "d_load"
    /\ ~upgrade_weak_ref(mgrAlive)
    /\ Return("ManagerDropped")
    /\ UNCHANGED <<others, inputs, locals, hist, state, mgrAlive, clock, on_usable,
                   safety_counter, changed>>

\* Line 348: load_once fails reading the store and `?` returns the error.
DLoadStoreError ==
    /\ pc = "d_load"
    /\ upgrade_weak_ref(mgrAlive)
    /\ missing_docs(state) # {}
    /\ Return("ErrStore")
    /\ ops' = ops \cup {"missing_docs"}
    /\ faults' = faults \cup {"store"}
    /\ n_loads' = n_loads + 1
    /\ UNCHANGED <<others, inputs, locals, state, mgrAlive, clock, on_usable,
                   safety_counter, changed, n_sent, n_fetch, n_delays,
                   n_resets, n_tries, n_tries_total, n_status>>

\* Lines 346-350: load_once from the cache, then now = dirmgr.now().
DLoadOnce ==
    /\ pc = "d_load"
    /\ upgrade_weak_ref(mgrAlive)
    /\ LET r == load_once(state, store, broken)
       IN  /\ state' = r.st
           /\ changed' = r.changed
           /\ n_status' = Published(r.changed)
           /\ ops' = ops \cup LoadOnceOps(state, r)
    /\ now' = clock
    /\ pc' = "d_check"
    /\ n_loads' = n_loads + 1
    /\ UNCHANGED <<others, inputs, reset_time, attempt_reset_time, attempt, delay, retry, sleeps,
                   wake, mgrAlive, clock, on_usable, safety_counter, ret,
                   n_sent, n_fetch, n_delays, n_resets, n_tries,
                   n_tries_total, faults>>

\* Lines 353-356: the cache was enough to advance.
DSkipDownload ==
    /\ pc = "d_check"
    /\ MayAdvance(state)
    /\ state' = advance(state)
    /\ pc' = "d_phase"
    /\ ops' = ops \cup {"can_advance", "advance"}
    /\ LeavePhase
    /\ UNCHANGED <<others, inputs, mgrAlive, clock, on_usable,
                   safety_counter, changed, ret, n_sent, n_fetch, n_loads, n_delays,
                   n_resets, n_tries, n_tries_total, n_status, faults>>

\* Lines 357-359: the cache made the state complete.
DCompleteFromCache ==
    /\ pc = "d_check"
    /\ ~can_advance(state)
    /\ Finished(state)
    /\ Return("OkNone")
    /\ ops' = ops \cup {"can_advance", "is_ready"}
    /\ UNCHANGED <<others, inputs, locals, state, mgrAlive, clock, on_usable,
                   safety_counter, changed, n_sent, n_fetch, n_loads, n_delays,
                   n_resets, n_tries, n_tries_total, n_status, faults>>

\* Lines 361-365: downloads are needed; set the phase's timer and schedule.
DBeginAttempts ==
    /\ pc = "d_check"
    /\ ~can_advance(state)
    /\ ~Finished(state)
    /\ reset_time' = no_more_than_a_week_from(clock, state_reset_time)
    /\ delay' = None
    /\ retry' = <<>>
    /\ sleeps' = <<>>
    /\ attempt' = 0
    /\ pc' = "d_loop"
    /\ ops' = ops \cup {"can_advance", "is_ready", "reset_time"}
    /\ UNCHANGED <<others, inputs, now, attempt_reset_time, wake, state, mgrAlive,
                   clock, on_usable, safety_counter, changed, ret, n_sent,
                   n_fetch, n_loads, n_delays, n_resets, n_tries, n_tries_total,
                   n_status, faults>>

\* Lines 435-439: every attempt was made and the state did not advance.
DExhausted ==
    /\ pc = "d_loop"
    /\ ~AttemptsLeft(attempt, n_attempts)
    /\ Return("CantAdvanceState")
    /\ UNCHANGED <<others, inputs, locals, hist, state, mgrAlive, clock, on_usable,
                   safety_counter, changed>>

\* Line 375, delay.replace(next_delay): the delay that was there before, and
\* the one that is there now.
delay_replace_new(d, next_delay) ==
    [old |-> Some(next_delay), new |-> Some(next_delay)]

delay_replace(d, next_delay) == [old |-> d, new |-> Some(next_delay)]

\* Lines 374-375 on the first attempt: take a delay from the schedule and
\* keep it for later, do not wait.
DFirstAttempt ==
    /\ pc = "d_loop"
    /\ AttemptsLeft(attempt, n_attempts)
    /\ \E next_delay \in 0..MaxDelay :
        LET r == delay_replace(delay, next_delay)
        IN  /\ ~r.old.some
            /\ delay' = r.new
            /\ retry' = Append(retry, next_delay)
    /\ pc' = "d_try"
    /\ UNCHANGED <<others, inputs, now, reset_time, attempt_reset_time, attempt,
                   sleeps, wake, hist, state, mgrAlive, clock, on_usable,
                   safety_counter, changed, ret>>

\* Lines 374-377 on a later attempt: start sleeping the previous delay.
DStartDelay ==
    /\ pc = "d_loop"
    /\ AttemptsLeft(attempt, n_attempts)
    /\ \E next_delay \in 0..MaxDelay :
        LET r == delay_replace(delay, next_delay)
        IN  /\ r.old.some
            /\ wake' = clock + r.old.v
            /\ sleeps' = Append(sleeps, r.old.v)
            /\ delay' = r.new
            /\ retry' = Append(retry, next_delay)
    /\ pc' = "d_delay"
    /\ UNCHANGED <<others, inputs, now, reset_time, attempt_reset_time, attempt,
                   hist, state, mgrAlive, clock, on_usable, safety_counter,
                   changed, ret>>

\* Lines 378-382: the phase's timer fires while download waits; the biased
\* select looks at it first.
DDelayReset ==
    /\ pc = "d_delay"
    /\ TimerFired(clock, reset_time)
    /\ n_resets < MaxResets
    /\ state' = reset(state)
    /\ n_resets' = n_resets + 1
    /\ ops' = ops \cup {"reset"}
    /\ LeavePhase
    /\ pc' = "d_phase"
    /\ UNCHANGED <<others, inputs, mgrAlive, clock, on_usable, safety_counter,
                   changed, ret, n_sent, n_fetch, n_loads, n_delays, n_tries,
                   n_tries_total, n_status, faults>>

\* Line 383: the delay is over and the phase's timer has not fired.
DDelayOver ==
    /\ pc = "d_delay"
    /\ ~TimerFired(clock, reset_time)
    /\ clock >= wake
    /\ n_delays' = n_delays + 1
    /\ wake' = 0
    /\ pc' = "d_try"
    /\ UNCHANGED <<others, inputs, now, reset_time, attempt_reset_time, attempt,
                   delay, retry, sleeps, state, mgrAlive, clock, on_usable,
                   safety_counter, changed, ret, n_sent, n_fetch, n_loads, n_resets,
                   n_tries, n_tries_total, n_status, ops, faults>>

\* Lines 387-391: the manager is gone when the attempt wants it.
DTryDropped ==
    /\ pc = "d_try"
    /\ ~upgrade_weak_ref(mgrAlive)
    /\ attempt_reset_time' = no_more_than_a_week_from(now, state_reset_time)
    /\ Return("ManagerDropped")
    /\ ops' = ops \cup {"describe", "reset_time"}
    /\ UNCHANGED <<others, inputs, now, reset_time, attempt, delay, retry, sleeps, wake, state,
                   mgrAlive, clock, on_usable, safety_counter, changed,
                   n_sent, n_fetch, n_loads, n_delays, n_resets, n_tries,
                   n_tries_total, n_status, faults>>

\* Lines 387-393 and 269-270: the attempt starts and its requests go out.
DTryLaunch ==
    /\ pc = "d_try"
    /\ upgrade_weak_ref(mgrAlive)
    /\ attempt_reset_time' = no_more_than_a_week_from(now, state_reset_time)
    /\ n_tries' = n_tries + 1
    /\ n_tries_total' = n_tries_total + 1
    /\ n_fetch' = n_fetch + Len(make_requests_for_documents(missing_docs(state)))
    /\ ops' = ops \cup {"describe", "reset_time", "missing_docs", "fetch_single"}
    /\ pc' = "d_inflight"
    /\ UNCHANGED <<others, n_loads, inputs, now, reset_time, attempt, delay, retry, sleeps, wake, state,
                   mgrAlive, clock, on_usable, safety_counter, changed, ret,
                   n_sent, n_delays, n_resets, n_status, faults>>

\* The responses the requests of this attempt can get.
AttemptResponses ==
    LET reqs == make_requests_for_documents(missing_docs(state))
    IN  IF net = "canned"
        THEN {[i \in 1..Len(reqs) |-> CannedResponse(canned)]}
        ELSE [1..Len(reqs) -> Responses]

\* Lines 393-402 and 413: download_attempt finishes first and is Ok.
DAttemptOk ==
    /\ pc = "d_inflight"
    /\ \E rs \in AttemptResponses :
          LET r == download_attempt(state, rs)
          IN  /\ state' = r.st
              /\ changed' = r.changed
              /\ n_status' = Published(r.changed)
              /\ ops' = ops \cup {"add_from_download" : x \in {1} \cap DOMAIN fetch_multiple(rs)}
                            \cup (IF r.changed THEN {"bootstrap_status"} ELSE {})
    /\ now' = clock
    /\ attempt_reset_time' = 0
    /\ pc' = "d_after"
    /\ UNCHANGED <<others, inputs, reset_time, attempt, delay, retry, sleeps,
                   wake, mgrAlive, clock, on_usable, safety_counter, ret,
                   n_sent, n_fetch, n_loads, n_delays, n_resets, n_tries,
                   n_tries_total, faults>>

\* Line 397, `continue 'next_attempt`: the for loop moves on to its next
\* item.
continue_next_attempt_again(a) == a

continue_next_attempt(a) == a + 1

\* Lines 395-398: download_attempt is Err (fetch_multiple could not build its
\* requests); the state is untouched and the next attempt is up.
DAttemptError ==
    /\ pc = "d_inflight"
    /\ net = "real"
    /\ attempt' = continue_next_attempt(attempt)
    /\ faults' = faults \cup {"request"}
    /\ attempt_reset_time' = 0
    /\ pc' = "d_loop"
    /\ UNCHANGED <<others, inputs, now, reset_time, delay, retry, sleeps, wake,
                   state, mgrAlive, clock, on_usable, safety_counter,
                   changed, ret, n_sent, n_fetch, n_loads, n_delays, n_resets,
                   n_tries, n_tries_total, n_status, ops>>

\* Lines 404-411: the attempt is still pending and its timer has fired.
DAttemptReset ==
    /\ pc = "d_inflight"
    /\ net = "real"
    /\ TimerFired(clock, attempt_reset_time)
    /\ n_resets < MaxResets
    /\ state' = reset(state)
    /\ n_resets' = n_resets + 1
    /\ ops' = ops \cup {"reset"}
    /\ LeavePhase
    /\ pc' = "d_phase"
    /\ UNCHANGED <<others, inputs, mgrAlive, clock, on_usable,
                   safety_counter, changed, ret, n_sent, n_fetch, n_loads, n_delays,
                   n_tries, n_tries_total, n_status, faults>>

\* Lines 416-419: the attempt completed the state.
DCompleteAfterAttempt ==
    /\ pc = "d_after"
    /\ Finished(state)
    /\ Return("OkNone")
    /\ ops' = ops \cup {"is_ready"}
    /\ UNCHANGED <<others, inputs, locals, state, mgrAlive, clock, on_usable,
                   safety_counter, changed, n_sent, n_fetch, n_loads, n_delays,
                   n_resets, n_tries, n_tries_total, n_status, faults>>

\* Lines 421-426: report usable-ness if appropriate.
ReportUsable ==
    /\ n_sent' = IF SendsUsable(on_usable, state) THEN n_sent + 1 ELSE n_sent
    /\ on_usable' = TakeSender(on_usable, state)

\* Lines 421-432: not complete; report, then advance to the next state.
DAdvance ==
    /\ pc = "d_after"
    /\ ~Finished(state)
    /\ ReportUsable
    /\ MayAdvance(state)
    /\ state' = advance(state)
    /\ pc' = "d_phase"
    /\ ops' = ops \cup {"is_ready", "can_advance", "advance"}
    /\ LeavePhase
    /\ UNCHANGED <<others, inputs, mgrAlive, clock, safety_counter, changed,
                   ret, n_fetch, n_loads, n_delays, n_resets, n_tries, n_tries_total,
                   n_status, faults>>

\* Lines 421-433: not complete, cannot advance; report, then next attempt.
DNextAttempt ==
    /\ pc = "d_after"
    /\ ~Finished(state)
    /\ ReportUsable
    /\ ~can_advance(state)
    /\ attempt' = attempt + 1
    /\ pc' = "d_loop"
    /\ ops' = ops \cup {"is_ready", "can_advance"}
    /\ UNCHANGED <<others, inputs, now, reset_time, attempt_reset_time, delay, retry, sleeps, wake,
                   state, mgrAlive, clock, safety_counter, changed, ret,
                   n_fetch, n_loads, n_delays, n_resets, n_tries, n_tries_total,
                   n_status, faults>>

Download ==
    \/ DStart \/ DPhase \/ DLoadDropped \/ DLoadStoreError \/ DLoadOnce
    \/ DSkipDownload \/ DCompleteFromCache \/ DBeginAttempts
    \/ DExhausted \/ DFirstAttempt \/ DStartDelay \/ DDelayReset \/ DDelayOver
    \/ DTryDropped \/ DTryLaunch \/ DAttemptOk \/ DAttemptError
    \/ DAttemptReset \/ DCompleteAfterAttempt \/ DAdvance \/ DNextAttempt

(* --------------------------- fetch_multiple ---------------------------- *)

\* buffer_unordered(parallelism): another future is taken from the stream
\* only while fewer than `parallelism` are in progress.
CanLaunch_more(in_progress, parallelism) == in_progress <= parallelism

CanLaunch(in_progress, parallelism) == in_progress < parallelism

\* A (request, response) pair, or the error the request ended with.
FetchResult(i, r) ==
    [req |-> i, result |-> r.result, status |-> r.status, body |-> r.body]

\* How one fetch_single can end: an error, a declined request, a 200.
FetchOutcomes == {r \in Responses : r.body = {}}

\* fetch_multiple(dirmgr, missing, parallelism) is called; `missing` will
\* make fm_requests requests.
InitFetch ==
    /\ DriverIdle
    /\ WeekIdle
    /\ MockIdle
    /\ OnceIdle
    /\ AttIdle
    /\ fm_pc = "start"
    /\ fm_lock = FALSE
    /\ fm_requests \in 0..MaxRequests
    /\ fm_parallelism \in 1..MaxParallelism
    /\ fm_next = 1
    /\ fm_inflight = {}
    /\ fm_responses = <<>>
    /\ fm_useful = <<>>
    /\ fm_ret = "none"

\* The guard `store` goes out of scope at the end of its block (lines 156
\* and 206): the mutex is free again.
drop_guard_late(held) == held

drop_guard(held) == FALSE

\* Line 154: the store lock is taken; it must be free.
FmLock ==
    /\ fm_pc = "start"
    /\ ~lo_lock
    /\ fm_pc' = "locked"
    /\ fm_lock' = TRUE
    /\ UNCHANGED <<driver, prev, week, mock, once, att, fm_requests, fm_parallelism,
                   fm_next, fm_inflight, fm_responses, fm_useful, fm_ret>>

\* Lines 155-156: the requests are built and the guard is dropped.
FmRequests ==
    /\ fm_pc = "locked"
    /\ fm_pc' = "stream"
    /\ fm_lock' = drop_guard(fm_lock)
    /\ UNCHANGED <<driver, prev, week, mock, once, att, fm_requests, fm_parallelism,
                   fm_next, fm_inflight, fm_responses, fm_useful, fm_ret>>

\* Line 155: make_requests_for_documents fails, and `?` returns its error.
FmRequestsError ==
    /\ fm_pc = "locked"
    /\ fm_pc' = "returned"
    /\ fm_lock' = FALSE
    /\ fm_ret' = "Err"
    /\ UNCHANGED <<driver, prev, week, mock, once, att, fm_requests, fm_parallelism,
                   fm_next, fm_inflight, fm_responses, fm_useful>>

\* Lines 160-162: the stream hands out the next request and its
\* fetch_single starts.
FmLaunch ==
    /\ fm_pc = "stream"
    /\ fm_next <= fm_requests
    /\ CanLaunch(Cardinality(fm_inflight), fm_parallelism)
    /\ fm_inflight' = fm_inflight \cup {fm_next}
    /\ fm_next' = fm_next + 1
    /\ UNCHANGED <<driver, prev, week, mock, once, att, fm_pc, fm_lock, fm_requests,
                   fm_parallelism, fm_responses, fm_useful, fm_ret>>

\* Lines 117-142, 163: one fetch_single in progress ends, and collect()
\* takes what it ended with.
FmFinish ==
    /\ fm_pc = "stream"
    /\ \E i \in fm_inflight, r \in FetchOutcomes :
        /\ fm_inflight' = fm_inflight \ {i}
        /\ fm_responses' = Append(fm_responses, FetchResult(i, r))
    /\ UNCHANGED <<driver, prev, week, mock, once, att, fm_pc, fm_lock, fm_requests,
                   fm_parallelism, fm_next, fm_useful, fm_ret>>

\* Lines 164-184: the stream is over; the useful responses are returned.
FmReturn ==
    /\ fm_pc = "stream"
    /\ fm_next > fm_requests
    /\ fm_inflight = {}
    /\ fm_pc' = "returned"
    /\ fm_useful' = fetch_multiple(fm_responses)
    /\ fm_ret' = "Ok"
    /\ UNCHANGED <<driver, prev, week, mock, once, att, fm_lock, fm_requests,
                   fm_parallelism, fm_next, fm_inflight, fm_responses>>

NextFetch ==
    FmLock \/ FmRequests \/ FmRequestsError \/ FmLaunch \/ FmFinish \/ FmReturn

SpecFetch == InitFetch /\ [][NextFetch]_vars

\* The executor keeps polling the stream, and every fetch_single ends.
SpecFetchLive == SpecFetch /\ WF_vars(NextFetch)

(* ------------------------ load_once, step by step ---------------------- *)

\* The states load_once is called on: nothing missing, or something.
LoadOnceStates ==
    {new1, [new1 EXCEPT !.got = {1}], [new1 EXCEPT !.got = {1, 2}],
     new2, [new2 EXCEPT !.got = {3}], [new2 EXCEPT !.got = {3, 4, 5}]}

\* The stores it finds.
LoadOnceStores == StoreChoices \cup {{1}}

\* Lines 208-215: an add_from_cache that failed because the cached object
\* has expired counts as Ok(false); anything else is passed on.
coerce_expired_never(how) ==
    IF how = "OtherErr" \/ how = "Expired" THEN "Err" ELSE how

coerce_expired(how) ==
    IF how = "Expired" THEN "OkFalse"
    ELSE IF how = "OtherErr" THEN "Err"
    ELSE how

\* One more call in the log of the load_once.
LoCalled(c, how) == lo_calls' = Append(lo_calls, [call |-> c, how |-> how])

\* load_once(dirmgr, state) is called.
LoadOnceStarts ==
    /\ lo_pc = "start"
    /\ lo_lock = FALSE
    /\ lo_state \in LoadOnceStates
    /\ lo_store \in LoadOnceStores
    /\ lo_documents = {}
    /\ lo_outcome = "none"
    /\ lo_calls = <<>>
    /\ lo_ret = "none"

InitLoadOnce ==
    /\ DriverIdle
    /\ WeekIdle
    /\ FetchIdle
    /\ MockIdle
    /\ AttIdle
    /\ LoadOnceStarts

LoadOnceFrame == UNCHANGED <<driver, prev, week, fetch, mock, att, lo_store>>

\* Lines 193-196: nothing is missing.
LoNothingMissing ==
    /\ lo_pc = "start"
    /\ missing_docs(lo_state) = {}
    /\ LoCalled("missing_docs", "empty")
    /\ lo_outcome' = "OkFalse"
    /\ lo_pc' = "outcome"
    /\ LoadOnceFrame
    /\ UNCHANGED <<lo_lock, lo_state, lo_documents, lo_ret>>

\* Lines 193, 204: something is missing; the store lock is taken (it must
\* be free).
LoLock ==
    /\ lo_pc = "start"
    /\ missing_docs(lo_state) # {}
    /\ ~fm_lock
    /\ lo_calls' = lo_calls \o <<[call |-> "missing_docs", how |-> "some"],
                                 [call |-> "lock", how |-> "Ok"]>>
    /\ lo_lock' = TRUE
    /\ lo_pc' = "locked"
    /\ LoadOnceFrame
    /\ UNCHANGED <<lo_state, lo_documents, lo_outcome, lo_ret>>

\* Lines 205-206: the documents are read and the guard is dropped.
LoRead ==
    /\ lo_pc = "locked"
    /\ lo_documents' = load_documents_from_store(missing_docs(lo_state), lo_store)
    /\ LoCalled("load_documents_from_store", "Ok")
    /\ lo_lock' = drop_guard(lo_lock)
    /\ lo_pc' = "loaded"
    /\ LoadOnceFrame
    /\ UNCHANGED <<lo_state, lo_outcome, lo_ret>>

\* Line 205: the store cannot be read, and `?` returns the error.
LoReadError ==
    /\ lo_pc = "locked"
    /\ LoCalled("load_documents_from_store", "Err")
    /\ lo_lock' = FALSE
    /\ lo_ret' = "Err"
    /\ lo_pc' = "done"
    /\ LoadOnceFrame
    /\ UNCHANGED <<lo_state, lo_documents, lo_outcome>>

\* Lines 208-215: add_from_cache, which can fail.
LoAdd ==
    /\ lo_pc = "loaded"
    /\ \/ LET a == add_from_cache(lo_state, lo_documents)
              how == IF a.changed THEN "OkTrue" ELSE "OkFalse"
          IN  /\ lo_state' = a.st
              /\ LoCalled("add_from_cache", how)
              /\ lo_outcome' = coerce_expired(how)
       \/ \E how \in {"Expired", "OtherErr"} :
              /\ lo_state' = lo_state
              /\ LoCalled("add_from_cache", how)
              /\ lo_outcome' = coerce_expired(how)
    /\ lo_pc' = "outcome"
    /\ LoadOnceFrame
    /\ UNCHANGED <<lo_lock, lo_documents, lo_ret>>

\* Lines 218-222: publish if the outcome is Ok(true); return the outcome.
LoReturn ==
    /\ lo_pc = "outcome"
    /\ IF lo_outcome = "OkTrue"
       THEN LoCalled("update_status", "Ok")
       ELSE lo_calls' = lo_calls
    /\ lo_ret' = lo_outcome
    /\ lo_pc' = "done"
    /\ LoadOnceFrame
    /\ UNCHANGED <<lo_lock, lo_state, lo_documents, lo_outcome>>

NextLoadOnce ==
    LoNothingMissing \/ LoLock \/ LoRead \/ LoReadError \/ LoAdd \/ LoReturn

SpecLoadOnce == InitLoadOnce /\ [][NextLoadOnce]_vars

(* ------------------- the store lock, in both its users ----------------- *)

\* A fetch_multiple and a load_once on the same DirMgr, in two tasks.
InitStore ==
    /\ DriverIdle
    /\ WeekIdle
    /\ MockIdle
    /\ AttIdle
    /\ LoadOnceStarts
    /\ fm_pc = "start"
    /\ fm_lock = FALSE
    /\ fm_requests \in 0..MaxRequests
    /\ fm_parallelism \in 1..MaxParallelism
    /\ fm_next = 1
    /\ fm_inflight = {}
    /\ fm_responses = <<>>
    /\ fm_useful = <<>>
    /\ fm_ret = "none"

NextStore == NextFetch \/ NextLoadOnce

SpecStore == InitStore /\ [][NextStore]_vars

(* ----------------- download_attempt, response by response -------------- *)

\* What becomes of one fetched response between lines 273 and 308:
\* String::from_utf8 fails, expand_response_text fails, add_from_download
\* fails, or none of them does.
Fates == {"none", "utf8", "expand", "add"}

\* A response as fetch_multiple returns it: the digests its text names, its
\* source if it has one, and its fate.
Fetched ==
    [body : {{1}, {2}}, source : {None, Some(1)}, fate : Fates]

\* The sequences of at most n elements of S.
SeqUpTo(S, n) == UNION {[1..k -> S] : k \in 0..n}

\* The states download_attempt is called on.
AttemptStates == {new1, [new1 EXCEPT !.got = {1}]}

\* Lines 273-306 for one response: the state afterwards and how it went.
handle_response(s, r) ==
    IF r.fate = "utf8" THEN [st |-> s, how |-> "BadUtf8"]
    ELSE IF r.fate = "expand" THEN [st |-> s, how |-> "ExpandErr"]
    ELSE IF r.fate = "add" THEN [st |-> s, how |-> "AddErr"]
    ELSE LET a == add_from_download(s, r.body)
         IN  [st |-> a.st, how |-> IF a.changed THEN "OkTrue" ELSE "OkFalse"]

\* Line 289, `changed |= b`.
or_changed_last(chg, how) == how = "OkTrue"

or_changed(chg, how) == chg \/ how = "OkTrue"

\* Lines 278-280, 290-292, 296-298, 303-305: what is told about the source.
note_source_if_changed(i, r, how) ==
    IF ~r.source.some THEN <<>>
    ELSE IF how = "OkTrue"
    THEN <<[call |-> "note_cache_success", resp |-> i, how |-> how]>>
    ELSE <<[call |-> "note_cache_error", resp |-> i, how |-> how]>>

note_source(i, r, how) ==
    IF ~r.source.some THEN <<>>
    ELSE IF how \in {"OkTrue", "OkFalse"}
    THEN <<[call |-> "note_cache_success", resp |-> i, how |-> how]>>
    ELSE <<[call |-> "note_cache_error", resp |-> i, how |-> how]>>

\* The add_from_download call of line 285, if the response gets that far.
add_call(i, r, how) ==
    IF r.fate \in {"utf8", "expand"} THEN <<>>
    ELSE <<[call |-> "add_from_download", resp |-> i, how |-> how]>>

\* `changed` at line 311 for a state and a sequence of responses.
RECURSIVE attempt_changed(_, _)
attempt_changed(s, fetched) ==
    IF fetched = <<>> THEN FALSE
    ELSE LET h == handle_response(s, Head(fetched))
         IN  h.how = "OkTrue" \/ attempt_changed(h.st, Tail(fetched))

\* download_attempt(dirmgr, state, _) is called.
InitAttempt ==
    /\ DriverIdle
    /\ WeekIdle
    /\ FetchIdle
    /\ MockIdle
    /\ OnceIdle
    /\ da_pc = "fetch"
    /\ da_state0 \in AttemptStates
    /\ da_state = da_state0
    /\ da_all = <<>>
    /\ da_fetched = <<>>
    /\ da_changed = FALSE
    /\ da_calls = <<>>
    /\ da_ret = "none"

AttemptFrame == UNCHANGED <<driver, prev, week, fetch, mock, once, da_state0>>

\* Line 270: fetch_multiple returns an error, and `?` returns it.
DaFetchError ==
    /\ da_pc = "fetch"
    /\ da_pc' = "done"
    /\ da_ret' = "Err"
    /\ AttemptFrame
    /\ UNCHANGED <<da_state, da_all, da_fetched, da_changed, da_calls>>

\* Line 270: fetch_multiple returns the useful responses.
DaFetched ==
    /\ da_pc = "fetch"
    /\ \E fetched \in SeqUpTo(Fetched, MaxFetched) :
        /\ da_all' = fetched
        /\ da_fetched' = fetched
    /\ da_pc' = "loop"
    /\ AttemptFrame
    /\ UNCHANGED <<da_state, da_changed, da_calls, da_ret>>

\* Lines 271-309: one turn of the for loop.
DaResponse ==
    /\ da_pc = "loop"
    /\ da_fetched # <<>>
    /\ LET r == Head(da_fetched)
           i == Len(da_all) - Len(da_fetched) + 1
           h == handle_response(da_state, r)
       IN  /\ da_state' = h.st
           /\ da_changed' = or_changed(da_changed, h.how)
           /\ da_calls' = da_calls \o add_call(i, r, h.how)
                                   \o note_source(i, r, h.how)
    /\ da_fetched' = Tail(da_fetched)
    /\ AttemptFrame
    /\ UNCHANGED <<da_pc, da_all, da_ret>>

\* Lines 311-315: publish the status if something changed, and return.
DaReturn ==
    /\ da_pc = "loop"
    /\ da_fetched = <<>>
    /\ da_calls' = IF da_changed
                   THEN Append(da_calls, [call |-> "update_status", resp |-> 0,
                                          how |-> "OkTrue"])
                   ELSE da_calls
    /\ da_ret' = IF da_changed THEN "OkTrue" ELSE "OkFalse"
    /\ da_pc' = "done"
    /\ AttemptFrame
    /\ UNCHANGED <<da_state, da_all, da_fetched, da_changed>>

NextAttempt == DaFetchError \/ DaFetched \/ DaResponse \/ DaReturn

SpecAttempt == InitAttempt /\ [][NextAttempt]_vars

(* -------------------------- MockSleepProvider -------------------------- *)

\* The SleepSchedule behind the provider.
SleepSchedule ==
    [instant |-> instant, wallclock |-> wallclock, sleepers |-> sleepers]

\* A sequence without its i-th element.
RemoveAt(q, i) == SubSeq(q, 1, i - 1) \o SubSeq(q, i + 1, Len(q))

\* BinaryHeap::peek_mut under SleepEntry::cmp (reversed on `when`): the
\* greatest entries are those with the least `when`; which of several equal
\* ones is on top is the heap's business.
Top(q) == {i \in DOMAIN q : \A j \in DOMAIN q : q[i].when <= q[j].when}

\* Sleeping::poll, line 156.
IsDue_after(t, when) == t > when

IsDue(t, when) == t >= when

\* SleepSchedule::fire, line 106: the top entry is not due yet.
FireStops_early(t, when) == t <= when

FireStops(t, when) == t < when

\* SleepSchedule::fire: pop and wake the top entry until the top is not due;
\* the ways that can go, each with the entries left and the wakers woken.
RECURSIVE fire(_, _, _)
fire(q, t, w) ==
    IF q = <<>> \/ (\A i \in Top(q) : FireStops(t, q[i].when))
    THEN {[sleepers |-> q, woken |-> w]}
    ELSE UNION {fire(RemoveAt(q, i), t, Append(w, q[i])) : i \in Top(q)}

\* MockSleepProvider::advance, on the schedule.
advance_schedule(s, dur) ==
    {[instant |-> s.instant + dur, wallclock |-> s.wallclock + dur,
      sleepers |-> f.sleepers, woken |-> f.woken] :
        f \in fire(s.sleepers, s.instant + dur, <<>>)}

\* MockSleepProvider::jump_to, on the schedule.
jump_to_advancing(s, new_wallclock) ==
    [s EXCEPT !.wallclock = new_wallclock,
              !.instant = IF new_wallclock > s.wallclock
                          THEN s.instant + (new_wallclock - s.wallclock)
                          ELSE s.instant]

jump_to(s, new_wallclock) == [s EXCEPT !.wallclock = new_wallclock]

\* The durations and wall-clock times the model hands to the provider.
Durations == 0..MaxDur

\* MockSleepProvider::new(wallclock).
InitMock ==
    /\ DriverIdle
    /\ WeekIdle
    /\ FetchIdle
    /\ OnceIdle
    /\ AttIdle
    /\ provider = TRUE
    /\ instant = 0
    /\ wallclock \in Durations
    /\ sleepers = <<>>
    /\ futures = <<>>
    /\ woken = <<>>
    /\ mock_op = [op |-> "none", arg |-> 0]
    /\ mock_ops = 0

\* One more operation on the clock or on one of its futures.
MockOp(op, arg) ==
    /\ mock_ops < MaxOps
    /\ mock_ops' = mock_ops + 1
    /\ mock_op' = [op |-> op, arg |-> arg]
    /\ UNCHANGED <<driver, prev, week, fetch, once, att>>

\* sleep(duration), lines 122-129: a new Sleeping, nothing queued.
McSleep ==
    /\ provider
    /\ \E duration \in Durations :
        /\ MockOp("sleep", duration)
        /\ futures' = Append(futures,
                             [made |-> instant, dur |-> duration,
                              when |-> instant + duration,
                              last |-> "none", at |-> 0, seen |-> FALSE])
    /\ woken' = <<>>
    /\ UNCHANGED <<provider, instant, wallclock, sleepers>>

\* Sleeping::poll, lines 151-168.
McPoll ==
    \E f \in DOMAIN futures :
        /\ MockOp("poll", f)
        /\ IF provider
           THEN IF IsDue(instant, futures[f].when)
                THEN /\ futures' = [futures EXCEPT ![f].last = "Ready",
                                                   ![f].at = instant,
                                                   ![f].seen = TRUE]
                     /\ sleepers' = sleepers
                ELSE /\ futures' = [futures EXCEPT ![f].last = "Pending",
                                                   ![f].at = instant,
                                                   ![f].seen = TRUE]
                     /\ sleepers' = Append(sleepers,
                                           [when |-> futures[f].when,
                                            waker |-> f])
           ELSE /\ futures' = [futures EXCEPT ![f].last = "Pending",
                                              ![f].seen = FALSE]
                /\ sleepers' = sleepers
        /\ woken' = <<>>
        /\ UNCHANGED <<provider, instant, wallclock>>

\* advance(dur), lines 81-88.
McAdvance ==
    /\ provider
    /\ \E dur \in Durations :
        /\ MockOp("advance", dur)
        /\ \E s \in advance_schedule(SleepSchedule, dur) :
            /\ instant' = s.instant
            /\ wallclock' = s.wallclock
            /\ sleepers' = s.sleepers
            /\ woken' = s.woken
    /\ UNCHANGED <<provider, futures>>

\* jump_to(new_wallclock), lines 92-95.
McJumpTo ==
    /\ provider
    /\ \E new_wallclock \in Durations :
        /\ MockOp("jump_to", new_wallclock)
        /\ LET s == jump_to(SleepSchedule, new_wallclock)
           IN  /\ instant' = s.instant
               /\ wallclock' = s.wallclock
               /\ sleepers' = s.sleepers
    /\ woken' = <<>>
    /\ UNCHANGED <<provider, futures>>

\* The MockSleepProvider is dropped, and its SleepSchedule with it: the
\* Weak of every Sleeping is dead from now on.
McDrop ==
    /\ provider
    /\ MockOp("drop", 0)
    /\ provider' = FALSE
    /\ sleepers' = <<>>
    /\ woken' = <<>>
    /\ UNCHANGED <<instant, wallclock, futures>>

NextMock == McSleep \/ McPoll \/ McAdvance \/ McJumpTo \/ McDrop

SpecMock == InitMock /\ [][NextMock]_vars

(* ----------------------------- environment ----------------------------- *)

\* Time passes while download is suspended: in the sleep between attempts,
\* or on a fetch that has not answered (a canned response answers at once).
Tick ==
    /\ \/ pc = "d_delay"
       \/ pc = "d_inflight" /\ net = "real"
    /\ clock < MaxTime
    /\ clock' = clock + 1
    /\ UNCHANGED <<others, inputs, locals, hist, pc, state, mgrAlive, on_usable,
                   safety_counter, changed, ret>>

\* The last owner of the DirMgr drops it while download runs.  download
\* notices at its next upgrade_weak_ref and nowhere else, so the drop is
\* taken at the moment download reaches one.
DropMgr ==
    /\ fn = "download"
    /\ pc \in {"d_start", "d_load", "d_try"}
    /\ mgrAlive
    /\ mgrAlive' = FALSE
    /\ faults' = faults \cup {"dropped"}
    /\ UNCHANGED <<others, inputs, locals, pc, state, clock, on_usable,
                   safety_counter, changed, ret, n_sent, n_fetch, n_loads, n_delays,
                   n_resets, n_tries, n_tries_total, n_status, ops>>

Next == Load \/ Download \/ Tick \/ DropMgr

(* ------------------- download, with resets without end ----------------- *)

\* Past the last reset that is counted, the histories of the call are not
\* kept any longer: they start again with each further reset.
ForgetHistory ==
    /\ n_fetch' = 0
    /\ n_loads' = 0
    /\ n_delays' = 0
    /\ n_tries' = 0
    /\ n_tries_total' = 0
    /\ n_status' = 0
    /\ ops' = {"reset"}
    /\ UNCHANGED <<n_sent, n_resets, faults>>

\* Lines 378-382, once more.
DDelayResetAgain ==
    /\ pc = "d_delay"
    /\ TimerFired(clock, reset_time)
    /\ n_resets >= MaxResets
    /\ state' = reset(state)
    /\ LeavePhase
    /\ ForgetHistory
    /\ pc' = "d_phase"
    /\ UNCHANGED <<others, inputs, mgrAlive, clock, on_usable, safety_counter,
                   changed, ret>>

\* Lines 404-411, once more.
DAttemptResetAgain ==
    /\ pc = "d_inflight"
    /\ net = "real"
    /\ TimerFired(clock, attempt_reset_time)
    /\ n_resets >= MaxResets
    /\ state' = reset(state)
    /\ LeavePhase
    /\ ForgetHistory
    /\ pc' = "d_phase"
    /\ UNCHANGED <<others, inputs, mgrAlive, clock, on_usable, safety_counter,
                   changed, ret>>

InitSpin == Init /\ fn = "download"

\* The steps of the task that runs download.
DownloadSpin == Download \/ DDelayResetAgain \/ DAttemptResetAgain

NextSpin == DownloadSpin \/ Tick \/ DropMgr

\* The task is polled whenever it can go on, and time passes while it
\* sleeps or waits for an answer.
SpecSpin ==
    InitSpin /\ [][NextSpin]_vars /\ WF_vars(DownloadSpin) /\ WF_vars(Tick)


Spec == Init /\ [][Next]_vars

TypeOK ==
    /\ pc \in {"l_loop", "d_start", "d_phase", "d_load", "d_check", "d_loop",
               "d_delay", "d_try", "d_inflight", "d_after", "done"}
    /\ state.phase \in 1..2
    /\ state.got \subseteq Wanted(state.phase)
    /\ clock \in 0..MaxTime
    /\ (ret = "none") = (pc # "done")

(* ------------------------------- claims -------------------------------- *)

\* The operations that read the cache, use the network or move the state.
DriverWork ==
    ops \cap {"missing_docs", "add_from_cache", "fetch_single",
              "add_from_download", "advance", "reset"}

\* download was handed Some(sender): it still holds it, or has sent on it.
GivenSender == on_usable \/ n_sent > 0

\* C1: across one call of download the on_usable sender is sent on at most
\* once, and once it has been sent on it is gone (None) for the rest of the
\* call, whatever resets and later usable states follow.
C1_AtMostOneUsableSignal ==
    /\ n_sent <= 1
    /\ (n_sent = 1 => ~on_usable)

\* C1 witness: after a reset, the first attempt of the second phase made the
\* state usable again although the signal had been sent before the reset.
C1_Witness ==
    /\ pc = "d_after"
    /\ n_resets = 1
    /\ state.phase = 2
    /\ n_tries = 1
    /\ is_ready(state, "Usable")
    /\ n_sent = 1

\* C2 (as claimed): whenever download, given a sender, returns a state that
\* is usable (a complete state in particular), the sender has been sent on
\* exactly once.
C2_SignalOnUsableReturn ==
    (fn = "download" /\ ret \in {"OkNone", "CantAdvanceState"}
        /\ GivenSender /\ is_ready(state, "Usable"))
    => n_sent = 1

\* C3: download returns Ok((state, None)) only with a complete state, and at
\* both places where it looks (after the cache load of a phase, after a
\* successful attempt) a state that is complete and cannot advance makes it
\* return at once, with no further attempt and no delay.
C3_ReturnsIffComplete ==
    /\ [](ret = "OkNone" => is_ready(state, "Complete"))
    /\ [][(pc \in {"d_check", "d_after"}
            /\ is_ready(state, "Complete") /\ ~can_advance(state))
          => (pc' = "done" /\ ret' = "OkNone" /\ state' = state
                /\ UNCHANGED <<n_tries_total, n_delays, n_fetch>>)]_vars

\* C3 witness: download returned a complete state that an attempt completed.
C3_Witness ==
    /\ ret = "OkNone"
    /\ n_tries_total >= 1
    /\ is_ready(state, "Complete")

\* C4: when the last of the n_attempts attempts of a phase is over and the
\* state neither completed nor advanced nor was reset, download returns
\* CantAdvanceState with the state as it is; and whenever it returns
\* CantAdvanceState, exactly n_attempts attempts were made in the phase and
\* the state is neither complete nor able to advance.
C4_RetryExhaustion ==
    /\ [][(pc = "d_loop" /\ n_tries = n_attempts)
          => (pc' = "done" /\ ret' = "CantAdvanceState" /\ state' = state)]_vars
    /\ [](ret = "CantAdvanceState"
            => /\ n_tries = n_attempts
               /\ ~is_ready(state, "Complete")
               /\ ~can_advance(state))

\* C4 witness: CantAdvanceState after two attempts with a delay in between.
C4_Witness ==
    /\ ret = "CantAdvanceState"
    /\ n_attempts = 2
    /\ n_tries = 2
    /\ n_delays >= 1

\* C5 (as claimed): download returns Err only when the manager has been
\* dropped; a store read error never makes it return Err.
C5_ErrOnlyWhenDropped ==
    (fn = "download" /\ pc = "done")
    => \/ ret \in {"OkNone", "CantAdvanceState"}
       \/ ret = "ManagerDropped" /\ ~mgrAlive

\* C6: when an upgrade of the weak reference fails (at the start of
\* download, of a phase, or of an attempt), the step download takes is the
\* return of ManagerDropped: the state, the sender and the counts of loads,
\* fetches, resets and publications are as they were.
C6_ManagerDropped ==
    /\ [][(~mgrAlive /\ pc \in {"d_start", "d_load", "d_try"})
          => (pc' = "done" /\ ret' = "ManagerDropped" /\ state' = state
                /\ DriverWork' = DriverWork
                /\ UNCHANGED <<on_usable, n_sent, n_fetch, n_loads,
                               n_resets, n_status>>)]_vars
    /\ [](ret = "ManagerDropped" => ~mgrAlive)

\* C6 witness: ManagerDropped returned at the start of a later attempt.
C6_Witness ==
    /\ ret = "ManagerDropped"
    /\ n_tries_total >= 1
    /\ attempt >= 1

\* C7 (as claimed): if neither changed nor can_advance is ever true within
\* load, load ends through the safety-counter assertion.
C7_NoProgressEndsInAssertion ==
    (fn = "load" /\ pc = "done" /\ faults = {}
        /\ n_status = 0 /\ "advance" \notin ops)
    => ret = "Panic"

\* C7 (amended): if neither changed nor can_advance is ever true within
\* load, load returns Ok after its first load_once, through the break and
\* without the assertion.  The assertion fires exactly when 100 iterations
\* in a row changed the state without letting it advance, so load never
\* makes more than 100 iterations in a row in a state it cannot leave.
C7_SafetyCounter ==
    fn = "load" =>
        /\ safety_counter <= SafetyLimit
        /\ (ret = "Panic") = (safety_counter = SafetyLimit)
        /\ (pc = "done" /\ faults = {} /\ n_status = 0 /\ "advance" \notin ops)
            => (ret = "Ok" /\ n_loads = 1 /\ safety_counter = 0)

\* C7 witness: the assertion fired on the hundredth iteration.
C7_Witness ==
    /\ fn = "load"
    /\ ret = "Panic"
    /\ n_loads = SafetyLimit

\* C8: load invokes no state operation besides missing_docs, add_from_cache,
\* can_advance, advance, describe and bootstrap_status; it fetches nothing
\* and never resets the state.
C8_LoadFrame ==
    fn = "load" =>
        /\ ops \subseteq {"missing_docs", "add_from_cache", "can_advance",
                          "advance", "describe", "bootstrap_status"}
        /\ n_fetch = 0
        /\ n_resets = 0
        /\ n_tries_total = 0

\* C8 witness: load returned without finding everything in the cache.
C8_Witness ==
    /\ fn = "load"
    /\ ret = "Ok"
    /\ "advance" \in ops
    /\ ~is_ready(state, "Complete")

\* The run had no injected failure and a state machine that reports truly.
NoFault == faults = {} /\ ~broken

\* C9: with every document in the cache, load returns Ok and download
\* returns Ok((state, None)), both with a complete state, no fetch_single
\* call and no retry delay.
C9_AllInCache ==
    (pc = "done" /\ store = Docs /\ NoFault)
    => /\ ret = (IF fn = "load" THEN "Ok" ELSE "OkNone")
       /\ is_ready(state, "Complete")
       /\ n_fetch = 0
       /\ n_tries_total = 0
       /\ n_delays = 0

\* C9 witness: download returned from a full cache.
C9_Witness ==
    /\ fn = "download"
    /\ pc = "done"
    /\ store = Docs
    /\ NoFault
    /\ n_loads = 2

\* The cache has the first phase and part of the second, and the canned
\* response names exactly the rest.
PartlyInCache ==
    /\ fn = "download"
    /\ Wanted(1) \subseteq store
    /\ store \cap Wanted(2) \notin {{}, Wanted(2)}
    /\ net = "canned"
    /\ canned = Docs \ store

\* C10: with the first phase and part of the second in the cache and a 200
\* response naming exactly the rest, download leaves the first phase on the
\* cache alone and returns Ok((state, None)), complete, after exactly one
\* attempt (one fetch_single) and no delay.
C10_PartlyInCache ==
    (pc = "done" /\ PartlyInCache /\ NoFault)
    => /\ ret = "OkNone"
       /\ is_ready(state, "Complete")
       /\ n_tries_total = 1
       /\ n_tries = 1
       /\ n_fetch = 1
       /\ n_delays = 0
       /\ n_resets = 0

\* C10 witness: the run of the test partly_in_cache has returned.
C10_Witness ==
    /\ pc = "done"
    /\ PartlyInCache
    /\ NoFault
    /\ store = {1, 2, 3}
    /\ n_tries_total = 1

\* C11: with the store unchanged, load called on the state a previous load
\* returned makes no load_once that reports a change, advances nothing,
\* publishes no status and returns Ok with that same state after a single
\* load_once.
C11_IdempotentReplay ==
    prev.some =>
        /\ state = prev.v
        /\ ~changed
        /\ n_status = 0
        /\ "advance" \notin ops
        /\ safety_counter = 0
        /\ (pc = "done" /\ faults = {}) => (ret = "Ok" /\ n_loads = 1)

\* C11 witness: the second load has looked into the cache for documents that
\* are still missing, and has returned.
C11_Witness ==
    /\ prev.some
    /\ pc = "done"
    /\ ret = "Ok"
    /\ "add_from_cache" \in ops
    /\ state.phase = 2

\* C12: no_more_than_a_week_from(now, v) is the smaller of v and now + 7
\* days when v is given and now + 7 days when it is not: never later than
\* now + 7 days, and v itself whenever v is not later than that, a v in the
\* past included.
C12_DeadlineClamp ==
    week_out.some =>
        LET r     == week_out.v
            limit == week_now + OneWeek
        IN  /\ r <= limit
            /\ ~week_v.some => r = limit
            /\ week_v.some => (r <= week_v.v /\ r \in {week_v.v, limit})
            /\ (week_v.some /\ week_v.v <= limit) => r = week_v.v

\* C12 witness: a deadline in the past came back as it was.
C12_Witness ==
    /\ week_out.some
    /\ week_v.some
    /\ week_v.v < week_now
    /\ week_out.v = week_v.v

\* The requests whose fetch_single has ended.
FmFinished == {fm_responses[k].req : k \in 1..Len(fm_responses)}

\* C13: while fetch_multiple(_, p) runs, at most p fetch_single calls have
\* started and not finished; it returns its responses only when every
\* request was launched and every fetch has finished, each once; and it
\* does return.
C13_BoundedParallelism ==
    /\ [](Cardinality(fm_inflight) <= fm_parallelism)
    /\ []((fm_pc = "returned" /\ fm_ret = "Ok")
            => /\ fm_next = fm_requests + 1
               /\ fm_inflight = {}
               /\ Len(fm_responses) = fm_requests
               /\ FmFinished = 1..fm_requests)
    /\ <>(fm_pc = "returned")

\* C13 witness: as many fetches as allowed are in progress, more than one,
\* and a request is waiting for its turn.
C13_Witness ==
    /\ fm_pc = "stream"
    /\ fm_parallelism > 1
    /\ Cardinality(fm_inflight) = fm_parallelism
    /\ fm_next <= fm_requests

\* The responses of fm_responses that succeeded with status 200.
FmGood ==
    {k \in 1..Len(fm_responses) :
        fm_responses[k].result = "Ok" /\ fm_responses[k].status = 200}

\* C14: what fetch_multiple returns is exactly the pairs whose fetch
\* succeeded with status 200, each once; whatever the fetches ended with,
\* fetch_multiple returns Ok once its requests were built.
C14_OnlyStatus200 ==
    /\ (fm_pc = "returned" /\ fm_ret = "Ok")
        => /\ \A k \in 1..Len(fm_useful) :
                /\ fm_useful[k].result = "Ok"
                /\ fm_useful[k].status = 200
                /\ \E j \in FmGood : fm_responses[j] = fm_useful[k]
           /\ \A j \in FmGood :
                \E k \in 1..Len(fm_useful) : fm_useful[k] = fm_responses[j]
           /\ Len(fm_useful) = Cardinality(FmGood)
    /\ (fm_pc = "returned" /\ fm_ret = "Err")
        => (fm_next = 1 /\ fm_responses = <<>>)

\* C14 witness: a failed fetch, a declined one and a 200 came back, and one
\* pair was returned.
C14_Witness ==
    /\ fm_pc = "returned"
    /\ fm_ret = "Ok"
    /\ Len(fm_useful) = 1
    /\ \E k \in 1..Len(fm_responses) : fm_responses[k].result = "Err"
    /\ \E k \in 1..Len(fm_responses) :
        fm_responses[k].result = "Ok" /\ fm_responses[k].status # 200

\* The step the reset branch of a race makes: reset(), once, and back to the
\* top of 'next_state.
ResetStep ==
    /\ state' = reset(state)
    /\ n_resets' = n_resets + 1
    /\ pc' = "d_phase"

\* The deadline of the phase (line 361) has passed during the delay download
\* is waiting out, or since the attempt in flight was started.
PhaseDeadlinePassed ==
    \/ pc = "d_delay" /\ TimerFired(clock, reset_time)
    \/ /\ pc = "d_inflight"
       /\ TimerFired(clock, reset_time)
       /\ ~(attempt = 0 /\ TimerFired(now, reset_time))

\* C15: when the deadline of the phase has passed during a delay or during
\* an attempt in flight, the next thing download does is to call reset()
\* once and to restart the phase from its top.
C15_DeadlineReset ==
    [][(PhaseDeadlinePassed /\ pc' # pc) => ResetStep]_vars

\* C16: every timer that races against a download attempt expires at the
\* deadline the phase computed at its start (line 361), which is at most a
\* week after the phase began.
C16_OneDeadlinePerPhase ==
    pc = "d_inflight" => attempt_reset_time = reset_time

\* A race is being decided and its reset timer has already fired: the
\* phase's timer in the race against the delay (line 378), the attempt's
\* own timer in the race against download_attempt (line 404).
RaceWithElapsedTimer ==
    \/ pc = "d_delay" /\ TimerFired(clock, reset_time)
    \/ pc = "d_inflight" /\ TimerFired(clock, attempt_reset_time)

\* C20: whenever a race is decided with its reset timer already fired, the
\* reset branch is the one taken, in the race against the delay and in the
\* race against the download attempt alike.
C20_ResetWinsRace ==
    [][(RaceWithElapsedTimer /\ pc' # pc) => ResetStep]_vars

\* C17: a Sleeping made by sleep(dur) at instant t, polled while its
\* provider is there, is Pending if the instant is before t + dur and Ready
\* if it is at or after t + dur, so that sleep(0) is ready at once; it is
\* never Ready before the clock was advanced by dur since it was made, and
\* of two sleepers the one with the earlier deadline cannot be found Pending
\* at an instant at which the other was found Ready.
C17_SleepReadiness ==
    \A f \in DOMAIN futures :
        LET x == futures[f]
        IN  /\ x.when = x.made + x.dur
            /\ x.seen =>
                /\ x.last \in {"Pending", "Ready"}
                /\ x.last = "Ready" <=> x.at >= x.made + x.dur
                /\ x.last = "Pending" <=> x.at < x.made + x.dur
                /\ x.dur = 0 => x.last = "Ready"
                /\ x.last = "Ready" => x.at - x.made >= x.dur
                /\ \A g \in DOMAIN futures :
                    (/\ x.last = "Pending"
                     /\ futures[g].seen
                     /\ futures[g].last = "Ready"
                     /\ x.when <= futures[g].when) => x.at < futures[g].at

\* C17 witness: after an advance one sleeper with a duration to wait was
\* found Ready and another, with a later deadline, Pending.
C17_Witness ==
    \E f, g \in DOMAIN futures :
        /\ futures[f].seen /\ futures[f].last = "Ready" /\ futures[f].dur > 0
        /\ futures[g].seen /\ futures[g].last = "Pending"
        /\ futures[g].at = futures[f].at
        /\ futures[g].when > futures[f].when

\* How many times an entry is in a queue.
Count(q, e) == Cardinality({i \in DOMAIN q : q[i] = e})

\* The step is an operation `op` on the clock.
IsOp(op) == mock_ops' # mock_ops /\ mock_op'.op = op

\* C18: advance(dur) adds dur to the instant and to the wall clock, wakes
\* and removes exactly the queued entries whose deadline is at or before
\* the new instant, earliest deadline first, and leaves the others in the
\* queue, all of them with a deadline after the new instant.
C18_AdvanceWakesDue ==
    [][IsOp("advance") =>
        /\ instant' = instant + mock_op'.arg
        /\ wallclock' = wallclock + mock_op'.arg
        /\ \A k \in DOMAIN woken' : woken'[k].when <= instant'
        /\ \A k, l \in DOMAIN woken' :
            k < l => woken'[k].when <= woken'[l].when
        /\ \A i \in DOMAIN sleepers' : sleepers'[i].when > instant'
        /\ \A i \in DOMAIN sleepers :
            Count(sleepers, sleepers[i])
                = Count(sleepers', sleepers[i]) + Count(woken', sleepers[i])
        /\ Len(sleepers) = Len(sleepers') + Len(woken')]_vars

\* C18 witness: an advance has woken two entries of different deadlines.
C18_Witness ==
    /\ mock_op.op = "advance"
    /\ Len(woken) = 2
    /\ woken[1].when < woken[2].when
    /\ woken[2].when = instant

\* C19: jump_to(wallclock) sets the wall clock and nothing else: the
\* instant and the queue stay as they are and no waker is woken; and no
\* operation makes the instant decrease.
C19_JumpMovesWallclockOnly ==
    [][/\ instant' >= instant
       /\ IsOp("jump_to") =>
            /\ wallclock' = mock_op'.arg
            /\ instant' = instant
            /\ sleepers' = sleepers
            /\ woken' = <<>>
            /\ futures' = futures]_vars

\* C19 witness: the wall clock was set forward past a queued deadline, and
\* the entry is still queued.
C19_Witness ==
    /\ mock_op.op = "jump_to"
    /\ sleepers # <<>>
    /\ wallclock > instant
    /\ mock_op.arg >= sleepers[1].when

\* C21: in a phase the attempt of index k (the k+1-th) starts after exactly
\* k sleeps, none before the first; the sleep before the k+1-th attempt
\* lasts the k-th delay the retry schedule handed out; and when
\* CantAdvanceState is returned there was one sleep fewer than attempts,
\* none after the last.
C21_AttemptDelayOrder ==
    /\ \A k \in DOMAIN sleeps : k \in DOMAIN retry /\ sleeps[k] = retry[k]
    /\ pc \in {"d_try", "d_inflight", "d_after"}
        => (Len(sleeps) = attempt /\ Len(retry) = attempt + 1)
    /\ pc = "d_inflight" => n_tries <= attempt + 1
    /\ pc = "d_delay"
        => (Len(sleeps) = attempt /\ wake <= clock + sleeps[attempt])
    /\ ret = "CantAdvanceState"
        => (Len(sleeps) = n_attempts - 1 /\ Len(retry) = n_attempts)

\* C21 witness: CantAdvanceState after two attempts, the sleep between them
\* being the first delay of the schedule and not the second.
C21_Witness ==
    /\ ret = "CantAdvanceState"
    /\ n_tries = 2
    /\ Len(sleeps) = 1
    /\ retry[1] # retry[2]
    /\ sleeps[1] = retry[1]

\* C22: the step download makes when download_attempt returns an error
\* goes to the next item of the attempt loop and does nothing else: the state,
\* the sender and the histories of resets, sends, status and DirState calls
\* are as before and nothing is returned; such errors alone never make
\* download return an Err, and the failed attempts count in the budget.
C22_AttemptErrorSkips ==
    /\ [][(pc = "d_inflight" /\ pc' = "d_loop") =>
            /\ attempt' = attempt + 1
            /\ state' = state
            /\ on_usable' = on_usable
            /\ ret' = "none"
            /\ UNCHANGED <<n_sent, n_resets, n_status, n_tries, changed, ops>>]_vars
    /\ []((fn = "download" /\ pc = "done" /\ faults \subseteq {"request"}
                /\ mgrAlive)
            => ret \in {"OkNone", "CantAdvanceState"})
    /\ [](ret = "CantAdvanceState" => n_tries = n_attempts)

\* C22 witness: an attempt ended in an error, the next one was made, and
\* download returned CantAdvanceState.
C22_Witness ==
    /\ ret = "CantAdvanceState"
    /\ faults = {"request"}
    /\ n_tries = 2
    /\ "add_from_download" \in ops

\* The entries of da_calls that are the call c about the response i.
CallsOf(c, i) ==
    {k \in DOMAIN da_calls : da_calls[k].call = c /\ da_calls[k].resp = i}

\* The orders in which the responses of da_all can arrive.
Arrivals ==
    LET n == Len(da_all)
    IN  {[k \in 1..n |-> da_all[p[k]]] :
            p \in {q \in [1..n -> 1..n] : \A a, b \in 1..n : q[a] = q[b] => a = b}}

\* C23: download_attempt returns Ok(true) iff one of its add_from_download
\* calls returned Ok(true), and would return the same with the responses in
\* any other order; every response that decodes and expands is handed to
\* add_from_download, whatever became of the responses before it; only
\* an error of fetch_multiple makes download_attempt return Err.
C23_ChangedIsOr ==
    /\ (da_pc = "done" /\ da_ret # "Err") =>
        /\ da_ret = "OkTrue" <=>
            \E k \in DOMAIN da_calls :
                da_calls[k].call = "add_from_download" /\ da_calls[k].how = "OkTrue"
        /\ \A order \in Arrivals :
            attempt_changed(da_state0, order) = (da_ret = "OkTrue")
        /\ \A i \in DOMAIN da_all :
            Cardinality(CallsOf("add_from_download", i))
                = IF da_all[i].fate \in {"none", "add"} THEN 1 ELSE 0
    /\ da_ret = "Err" => (da_all = <<>> /\ da_calls = <<>>)

\* C23 witness: Ok(true) from the last of several responses, the first of
\* which failed.
C23_Witness ==
    /\ da_pc = "done"
    /\ da_ret = "OkTrue"
    /\ Len(da_all) >= 2
    /\ da_all[1].fate # "none"
    /\ da_all[Len(da_all)].fate = "none"

\* C24: when download_attempt has returned, every response with a source
\* got exactly one note: note_cache_success if add_from_download returned
\* Ok, changing the state or not, and note_cache_error if decoding,
\* expansion or add_from_download failed; a response without a source got
\* none.
C24_SourceAttribution ==
    (da_pc = "done" /\ da_ret # "Err") =>
        \A i \in DOMAIN da_all :
            LET ok  == Cardinality(CallsOf("note_cache_success", i))
                err == Cardinality(CallsOf("note_cache_error", i))
            IN  IF ~da_all[i].source.some THEN ok = 0 /\ err = 0
                ELSE IF da_all[i].fate = "none" THEN ok = 1 /\ err = 0
                ELSE ok = 0 /\ err = 1

\* C24 witness: a response with a source was added without changing the
\* state, and its source was noted for a success.
C24_Witness ==
    /\ da_pc = "done"
    /\ \E k \in DOMAIN da_calls :
        da_calls[k].call = "note_cache_success" /\ da_calls[k].how = "OkFalse"
    /\ \E k \in DOMAIN da_calls : da_calls[k].call = "note_cache_error"

\* The step is one in which a load_once or a download_attempt returns Ok.
CallReturnsOk ==
    \/ n_loads' = n_loads + 1 /\ faults' = faults
    \/ pc = "d_inflight" /\ pc' = "d_after"

\* C25: a step of the driver publishes the status once if it is the return
\* of a load_once or of a download_attempt with changed = true; no other
\* step publishes: not an unchanged or failed call, not an advance, a reset
\* or a return.
C25_StatusPublication ==
    [][IF CallReturnsOk /\ changed'
       THEN n_status' = n_status + 1
       ELSE n_status' = n_status]_vars

\* C25 witness: download has returned after a load_once and a
\* download_attempt that each changed the state, an advance and a reset.
C25_Witness ==
    /\ fn = "download"
    /\ pc = "done"
    /\ n_status >= 2
    /\ n_tries_total >= 1
    /\ {"add_from_cache", "add_from_download", "advance", "reset"} \subseteq ops

\* The calls of the load_once that are the call c ending as `how`.
LoCalls(c, how) ==
    {k \in DOMAIN lo_calls : lo_calls[k].call = c /\ lo_calls[k].how = how}

\* All the calls c of the load_once.
LoCallsOf(c) == {k \in DOMAIN lo_calls : lo_calls[k].call = c}

\* C26: a load_once that finds nothing missing returns Ok(false) having
\* neither locked the store nor called add_from_cache; one whose
\* add_from_cache fails with the expired error returns Ok(false) and
\* publishes nothing; any other add_from_cache error and a store read
\* error come back as Err.
C26_LoadOnceErrors ==
    lo_pc = "done" =>
        /\ LoCalls("missing_docs", "empty") # {}
            => /\ lo_ret = "OkFalse"
               /\ Len(lo_calls) = 1
        /\ LoCalls("add_from_cache", "Expired") # {}
            => /\ lo_ret = "OkFalse"
               /\ LoCallsOf("update_status") = {}
        /\ LoCalls("add_from_cache", "OtherErr") # {} => lo_ret = "Err"
        /\ LoCalls("load_documents_from_store", "Err") # {}
            => /\ lo_ret = "Err"
               /\ LoCallsOf("add_from_cache") = {}
        /\ lo_ret = "Err" => LoCallsOf("update_status") = {}

\* C26 witness: a load_once with documents to add from the cache returned
\* Ok(false) because add_from_cache said they had expired.
C26_Witness ==
    /\ lo_pc = "done"
    /\ lo_ret = "OkFalse"
    /\ lo_documents # {}
    /\ LoCalls("add_from_cache", "Expired") # {}

\* C27: fetch_multiple holds the store lock only between taking it and
\* having built its requests, takes it once, and has started no
\* fetch_single by then; load_once holds it only while it reads the store
\* and has not called add_from_cache by then; the two never hold it
\* together.
C27_LockNotHeldAcrossAwait ==
    /\ [](fm_lock => (fm_pc = "locked" /\ fm_next = 1 /\ fm_inflight = {}))
    /\ [](fm_pc \in {"stream", "returned"} => ~fm_lock)
    /\ [](lo_lock => (lo_pc = "locked" /\ LoCallsOf("add_from_cache") = {}))
    /\ [](LoCallsOf("add_from_cache") # {} => ~lo_lock)
    /\ [](Cardinality(LoCallsOf("lock")) <= 1)
    /\ [](~(fm_lock /\ lo_lock))
    /\ [][(fm_lock' /\ ~fm_lock) => fm_pc = "start"]_vars
    /\ [][fm_inflight' # fm_inflight => (~fm_lock /\ ~fm_lock')]_vars

\* C27 witness: fetches are in progress and add_from_cache has been called,
\* after each of the two calls held the lock.
C27_Witness ==
    /\ fm_inflight # {}
    /\ ~fm_lock
    /\ ~lo_lock
    /\ LoCallsOf("lock") # {}
    /\ LoCallsOf("add_from_cache") # {}

\* The Sleeping futures that were made and have not been found Ready.
PendingSleeps == {f \in DOMAIN futures : futures[f].last # "Ready"}

\* C28: the queue holds at most one entry for each Sleeping, however many
\* times it was polled, and so never more entries than there are pending
\* Sleeping futures.
C28_OneEntryPerSleeper ==
    /\ \A f \in DOMAIN futures :
        Cardinality({i \in DOMAIN sleepers : sleepers[i].waker = f}) <= 1
    /\ Len(sleepers) <= Cardinality(PendingSleeps)

\* C29: every call of download returns in the end, whatever
\* state.reset_time() answers (or the clock of the model reaches its last
\* value first).
C29_DownloadReturns == <>(pc = "done" \/ clock = MaxTime)

\* The state on which the step calls can_advance(): what load_once left in
\* load, the state as it is in download.
StateTested ==
    IF pc = "l_loop" THEN load_once(state, store, broken).st ELSE state

\* C30: a step of load or download that calls state.advance() does so on a
\* state whose can_advance() is true; a step that calls state.reset() is the
\* reset branch of a race whose timer has fired, and load makes none; and
\* the state load returns as Ok cannot advance, its last load_once having
\* reported no change.
C30_TransitionDiscipline ==
    /\ [][(state'.phase # state.phase /\ n_resets' = n_resets)
            => (pc \in {"l_loop", "d_check", "d_after"} /\ can_advance(StateTested))]_vars
    /\ [][("advance" \in ops' /\ "advance" \notin ops)
            => (pc \in {"l_loop", "d_check", "d_after"} /\ can_advance(StateTested))]_vars
    /\ [][n_resets' # n_resets
            => /\ fn = "download"
               /\ state' = reset(state)
               /\ \/ pc = "d_delay" /\ TimerFired(clock, reset_time)
                  \/ pc = "d_inflight" /\ TimerFired(clock, attempt_reset_time)]_vars
    /\ []((fn = "load" /\ pc = "done" /\ ret = "Ok")
            => (~can_advance(state) /\ ~changed /\ n_resets = 0))

\* C30 witness: download has advanced, has been reset by a timer and has
\* advanced again.
C30_Witness ==
    /\ fn = "download"
    /\ n_resets = 1
    /\ state.phase = 2
    /\ "advance" \in ops

====
